---- MODULE Spec2Model ----
(***************************************************************************)
(* Model of http_event_collector (src/http_event_collector.py): the event  *)
(* batcher (sendEvent), the delivery loop with backoff (flushBatch) over a *)
(* requests session whose adapter carries its own urllib3 Retry, and the   *)
(* three metrics counters.                                                 *)
(*                                                                         *)
(* Strings are sequences of one-character strings, so that len(), join,    *)
(* split and the JSON escaping are computed character by character.  A     *)
(* payload dict is a sequence of <<key, value>> pairs in insertion order.  *)
(***************************************************************************)
EXTENDS Integers, Sequences, FiniteSets, TLC

\* ------------------------------------------------------------------ bounds
\* max_bytes given to the constructor (the default, 1048576, scaled down)
MaxBytes == 120
\* number of sendEvent / flushBatch calls a producer makes in one run
MaxCalls == 3
\* length of the message of the oversized event offered to sendEvent
BigLen == 70
\* number of times the processor passes from one caller's thread to the other's
MaxSwitches == 2
\* largest max_retries passed to _safe_api_call_with_retry
MaxApiRetries == 3
\* number of calls of _safe_api_call_with_retry in one run
MaxApiCalls == 2

\* ------------------------------------------------------- program constants
DEFAULT_MAX_RETRIES == 3
DEFAULT_BACKOFF_FACTOR == 1
DEFAULT_RETRY_STATUS_CODES == {429, 500, 502, 503, 504}

\* ----------------------------------------------------------------- strings
NL == "\n"
QUOTE == "\""
BACKSLASH == "\\"

RECURSIVE Rep(_, _)
Rep(c, n) == IF n = 0 THEN <<>> ELSE <<c>> \o Rep(c, n - 1)

\* the characters of a dict key
KeyChars(k) ==
    CASE k = "event" -> <<"e", "v", "e", "n", "t">>
      [] k = "host" -> <<"h", "o", "s", "t">>
      [] k = "index" -> <<"i", "n", "d", "e", "x">>
      [] k = "time" -> <<"t", "i", "m", "e">>

\* json.dumps of one character inside a string
EscapeChar(c) ==
    CASE c = NL -> <<BACKSLASH, "n">>
      [] c = QUOTE -> <<BACKSLASH, QUOTE>>
      [] c = BACKSLASH -> <<BACKSLASH, BACKSLASH>>
      [] OTHER -> <<c>>

RECURSIVE Escape(_)
Escape(s) == IF s = <<>> THEN <<>> ELSE EscapeChar(Head(s)) \o Escape(Tail(s))

\* json.dumps of a string: quoted and escaped
DumpsStr(s) == <<QUOTE>> \o Escape(s) \o <<QUOTE>>

\* json.dumps of the items of a dict, ", " between items and ": " inside one
RECURSIVE DumpsItems(_)
DumpsItems(d) ==
    IF d = <<>> THEN <<>>
    ELSE DumpsStr(KeyChars(Head(d)[1])) \o <<":", " ">> \o DumpsStr(Head(d)[2])
         \o (IF Len(d) > 1 THEN <<",", " ">> ELSE <<>>)
         \o DumpsItems(Tail(d))

\* json.dumps(payload)
Dumps(d) == <<"{">> \o DumpsItems(d) \o <<"}">>

\* (a join that leaves the separator out)
JoinNoSeparator(batch) ==
    LET F[i \in 0..Len(batch)] == IF i = 0 THEN <<>> ELSE F[i - 1] \o batch[i]
    IN  F[Len(batch)]
\* '\n'.join(batch)
Join(batch) ==
    LET F[i \in 0..Len(batch)] ==
            IF i = 0 THEN <<>>
            ELSE IF i = 1 THEN batch[1]
            ELSE F[i - 1] \o <<NL>> \o batch[i]
    IN  F[Len(batch)]

\* the sum of the lengths of the strings of a batch
RECURSIVE SumLen(_)
SumLen(batch) == IF batch = <<>> THEN 0 ELSE Len(Head(batch)) + SumLen(Tail(batch))

\* body.split('\n'): what a reader of the request body sees,
\* segment by segment
Split(s) ==
    LET nl == {i \in 1..Len(s) : s[i] = NL}
        \* the position of the j-th newline; 0 before the first segment and
        \* Len(s) + 1 after the last
        Pos(j) == IF j = 0 THEN 0
                  ELSE IF j = Cardinality(nl) + 1 THEN Len(s) + 1
                  ELSE CHOOSE i \in nl : Cardinality({x \in nl : x < i}) = j - 1
    IN  [j \in 1..(Cardinality(nl) + 1) |-> SubSeq(s, Pos(j - 1) + 1, Pos(j) - 1)]

RECURSIVE Pow2(_)
Pow2(n) == IF n = 0 THEN 1 ELSE 2 * Pow2(n - 1)

\* ------------------------------------------------------------------- dicts
HasKey(d, k) == \E i \in 1..Len(d) : d[i][1] = k

\* d[k] = v: replaces the value in place, or appends a new item
SetKey(d, k, v) ==
    IF HasKey(d, k)
    THEN [i \in 1..Len(d) |-> IF d[i][1] = k THEN <<k, v>> ELSE d[i]]
    ELSE Append(d, <<k, v>>)

\* sendEvent's enrichment of the payload
Enrich(d, eventtime, now, host, index) ==
    LET d1 == IF ~HasKey(d, "host") THEN SetKey(d, "host", host) ELSE d
        d2 == IF ~HasKey(d1, "index") /\ index # <<>>
              THEN SetKey(d1, "index", index) ELSE d1
    IN  IF eventtime # <<>> THEN SetKey(d2, "time", eventtime)
        ELSE IF ~HasKey(d2, "time") THEN SetKey(d2, "time", now)
        ELSE d2

\* a value json.dumps has no encoding for (a set, an object): it raises
\* TypeError
NotJSON == <<"object">>
\* json.dumps(d) returns
Serializable(d) == \A i \in 1..Len(d) : d[i][2] # NotJSON

\* ------------------------------------------------------------------ inputs
\* The (payload, eventtime) pairs a producer offers: a bare event; an event
\* with its own host, time and index, a message that needs escaping and an
\* explicit time that overrides its own; an event that keeps its own time;
\* one that alone exceeds MaxBytes; and one json.dumps cannot serialize.
Inputs ==
    { << << <<"event", <<"a">> >> >>, <<>> >>,
      << << <<"host", <<"x">> >>, <<"time", <<"5">> >>, <<"event", <<NL>> >>,
            <<"index", <<"i">> >> >>, <<"9">> >>,
      << << <<"event", <<"a", QUOTE, BACKSLASH>> >>, <<"time", <<"5">> >> >>, <<>> >>,
      << << <<"event", Rep("b", BigLen)>> >>, <<>> >>,
      << << <<"event", NotJSON>> >>, <<>> >> }
\* str(int(time.time()))
Clock == { <<"1">> }
\* the host and index given to the constructor
Hosts == { <<"h">> }
Indexes == { <<"m">> }
\* what the server answers to one HTTP submission
StatusCodes == {200, 400, 503}
\* the transport failures flushBatch catches by name
TransportErrors == {"Timeout", "ConnectionError"}

\* ------------------------------------------------------------ configuration
max_retries == DEFAULT_MAX_RETRIES
backoff_factor == DEFAULT_BACKOFF_FACTOR

\* ------------------------------------------------------------------- state
VARIABLES
    \* fields of the instance
    batchEvents, currentByteLength, send_count, retry_count, error_count,
    host, index,
    \* the caller's position and the locals of the call in progress
    pc, caller, payloadString, payload, event_count, attempt, last_error,
    total, response, raised,
    \* history of the run, read by the properties only:
    \* calls made; flushBatch calls made by the current call; HTTP submissions,
    \* waits and attempt results of the current flush; how the last flush
    \* ended; the counters when the current flush began and the batch when the
    \* current call began; the events appended so far and the events read off
    \* the bodies handed to the session so far
    calls, flushCalls, posts, waits, results, outcome,
    send0, retry0, error0, batch0, bytes0, accepted, submitted,
    \* the distinct bodies handed to the session by the current flush
    sentBodies,
    \* the number of events cleared from the batch by flushes that ended in
    \* error
    discarded,
    \* what the last get_metrics call returned since the last call
    metrics,
    \* two callers on one instance: the position, locals and call history of
    \* the caller that is not running; whether a caller was ever suspended
    \* inside a call; the number of thread switches so far
    saved, overlapped, switches,
    \* _safe_api_call_with_retry (plugin.py): the position of the call in
    \* progress, its arguments max_retries and initial_wait, its loop
    \* variable, the number of calls of the helper so far and, for the current
    \* call, the messages of the exceptions api_func raised, the waits made,
    \* the number of times api_func was invoked and how the call ended
    api_pc, api_max_retries, initial_wait, api_attempt, api_calls,
    api_errors, api_waits, invocations, api_outcome

fields == <<batchEvents, currentByteLength, send_count, retry_count, error_count,
            host, index>>
locals == <<pc, caller, payloadString, payload, event_count, attempt, last_error,
            total, response, raised>>
history == <<calls, flushCalls, posts, waits, results, outcome,
             send0, retry0, error0, batch0, bytes0, accepted, submitted,
             sentBodies, discarded>>
conc == <<saved, overlapped, switches>>
api == <<api_pc, api_max_retries, initial_wait, api_attempt, api_calls,
         api_errors, api_waits, invocations, api_outcome>>
vars == <<fields, locals, history, conc, metrics, api>>

\* what belongs to one caller: its position, its locals and the history of
\* its current call
Context ==
    [pc |-> pc, caller |-> caller, payloadString |-> payloadString,
     payload |-> payload, event_count |-> event_count, attempt |-> attempt,
     last_error |-> last_error, total |-> total, response |-> response,
     raised |-> raised, flushCalls |-> flushCalls, posts |-> posts,
     waits |-> waits, results |-> results, outcome |-> outcome,
     send0 |-> send0, retry0 |-> retry0, error0 |-> error0,
     batch0 |-> batch0, bytes0 |-> bytes0, sentBodies |-> sentBodies]
\* a caller that has not called yet
IdleContext ==
    [pc |-> "idle", caller |-> "none", payloadString |-> <<>>,
     payload |-> <<>>, event_count |-> 0, attempt |-> 0,
     last_error |-> "None", total |-> 0, response |-> 0,
     raised |-> FALSE, flushCalls |-> 0, posts |-> 0,
     waits |-> <<>>, results |-> <<>>, outcome |-> "none",
     send0 |-> 0, retry0 |-> 0, error0 |-> 0,
     batch0 |-> <<>>, bytes0 |-> 0, sentBodies |-> {}]

\* get_metrics has not been called since the last call
NoMetrics == [send_count |-> -1, retry_count |-> -1, error_count |-> -1]

\* _safe_api_call_with_retry has not been called
ApiIdle ==
    /\ api_pc = "idle"
    /\ api_max_retries = 0
    /\ initial_wait = 0
    /\ api_attempt = 0
    /\ api_calls = 0
    /\ api_errors = <<>>
    /\ api_waits = <<>>
    /\ invocations = 0
    /\ api_outcome = "none"

\* __init__
Init ==
    /\ batchEvents = <<>>
    /\ currentByteLength = 0
    /\ send_count = 0
    /\ retry_count = 0
    /\ error_count = 0
    /\ host \in Hosts
    /\ index \in Indexes
    /\ pc = "idle"
    /\ caller = "none"
    /\ payloadString = <<>>
    /\ payload = <<>>
    /\ event_count = 0
    /\ attempt = 0
    /\ last_error = "None"
    /\ total = 0
    /\ response = 0
    /\ raised = FALSE
    /\ calls = 0
    /\ flushCalls = 0
    /\ posts = 0
    /\ waits = <<>>
    /\ results = <<>>
    /\ outcome = "none"
    /\ send0 = 0
    /\ retry0 = 0
    /\ error0 = 0
    /\ batch0 = <<>>
    /\ bytes0 = 0
    /\ accepted = <<>>
    /\ submitted = <<>>
    /\ sentBodies = {}
    /\ discarded = 0
    /\ metrics = NoMetrics
    /\ saved = IdleContext
    /\ overlapped = FALSE
    /\ switches = 0
    /\ ApiIdle

\* (a size check that looks at the held bytes alone)
ExceedsMaxHeld(payloadLength) == currentByteLength > MaxBytes
\* (a size check that looks at the new event alone)
ExceedsMaxAlone(payloadLength) == payloadLength > MaxBytes
\* sendEvent's size check
ExceedsMax(payloadLength) == (currentByteLength + payloadLength) > MaxBytes

\* (a counter that also counts a separator per event)
AddLengthWithSeparator(payloadLength) == currentByteLength + payloadLength + 1
\* self.currentByteLength += payloadLength
AddLength(payloadLength) == currentByteLength + payloadLength

\* (a flush without the empty check)
BatchIsEmptyNever == FALSE
\* flushBatch's empty check
BatchIsEmpty == Len(batchEvents) = 0

\* the status codes flushBatch retries
IsRetryStatus(code) == code \in DEFAULT_RETRY_STATUS_CODES

\* (a wait that grows linearly)
WaitTimeLinear(a) == backoff_factor * (a + 1)
\* the wait after a failed attempt
WaitTime(a) == backoff_factor * Pow2(a)

\* range(self.max_retries + 1) has another attempt after attempt a
HasNextAttempt(a) == a + 1 < max_retries + 1

\* (a success that counts one event per flush)
SentCountOne == send_count + 1
\* self.send_count += event_count
SentCount == send_count + event_count

\* (a reset that forgets the counter)
ClearBatchKeepCount ==
    /\ batchEvents' = <<>>
    /\ UNCHANGED currentByteLength
\* the batch and its counter are reset together
ClearBatch ==
    /\ batchEvents' = <<>>
    /\ currentByteLength' = 0

\* the batch about to be cleared is lost: its events are counted as
\* discarded
Discard == discarded' = discarded + Len(batchEvents)

\* no flush is in progress: its locals and its history are blank
NoFlush ==
    /\ payload' = <<>>
    /\ event_count' = 0
    /\ attempt' = 0
    /\ last_error' = "None"
    /\ total' = 0
    /\ response' = 0
    /\ posts' = 0
    /\ waits' = <<>>
    /\ results' = <<>>
    /\ sentBodies' = {}
    /\ send0' = 0
    /\ retry0' = 0
    /\ error0' = 0

\* flushBatch up to its first submission: the empty check, the body, the
\* headers and the start of the attempt loop
FlushEnter ==
    /\ UNCHANGED <<fields, accepted, conc, api, discarded>>
    /\ metrics' = NoMetrics
    /\ sentBodies' = {}
    /\ response' = 0
    /\ raised' = FALSE
    /\ posts' = 0
    /\ waits' = <<>>
    /\ results' = <<>>
    /\ send0' = send_count
    /\ retry0' = retry_count
    /\ error0' = error_count
    /\ batch0' = batchEvents
    /\ bytes0' = currentByteLength
    /\ last_error' = "None"
    /\ attempt' = 0
    /\ IF BatchIsEmpty
       THEN /\ pc' = "ret"
            /\ outcome' = "noop"
            /\ payload' = <<>>
            /\ event_count' = 0
            /\ total' = 0
            /\ UNCHANGED submitted
       ELSE /\ payload' = Join(batchEvents)
            /\ event_count' = Len(batchEvents)
            /\ total' = max_retries
            /\ pc' = "post"
            /\ outcome' = "none"
            /\ submitted' = submitted \o Split(payload')

\* sendEvent up to the append: enrichment, serialization, the size check and
\* the flush it calls when the event does not fit
SendEvent(p, eventtime, now) ==
    /\ pc = "idle"
    /\ calls < MaxCalls
    /\ Serializable(Enrich(p, eventtime, now, host, index))
    /\ calls' = calls + 1
    /\ caller' = "sendEvent"
    /\ LET payloadLength == Len(Dumps(Enrich(p, eventtime, now, host, index)))
       IN  /\ payloadString' = Dumps(Enrich(p, eventtime, now, host, index))
           /\ IF ExceedsMax(payloadLength)
              THEN /\ flushCalls' = 1
                   /\ FlushEnter
              ELSE /\ flushCalls' = 0
                   /\ pc' = "append"
                   /\ outcome' = "none"
                   /\ raised' = FALSE
                   /\ NoFlush
                   /\ batch0' = batchEvents
                   /\ bytes0' = currentByteLength
                   /\ metrics' = NoMetrics
                   /\ UNCHANGED <<fields, accepted, submitted, conc, api, discarded>>

\* (a serialization failure that is counted as an error)
SendEventFailsCountsError(p, eventtime, now) ==
    /\ pc = "idle"
    /\ calls < MaxCalls
    /\ ~Serializable(Enrich(p, eventtime, now, host, index))
    /\ calls' = calls + 1
    /\ caller' = "sendEvent"
    /\ payloadString' = <<>>
    /\ flushCalls' = 0
    /\ pc' = "idle"
    /\ outcome' = "unserializable"
    /\ raised' = TRUE
    /\ payload' = <<>>
    /\ event_count' = 0
    /\ attempt' = 0
    /\ last_error' = "None"
    /\ total' = 0
    /\ response' = 0
    /\ posts' = 0
    /\ waits' = <<>>
    /\ results' = <<>>
    /\ sentBodies' = {}
    /\ send0' = send_count
    /\ retry0' = retry_count
    /\ error0' = error_count
    /\ batch0' = batchEvents
    /\ bytes0' = currentByteLength
    /\ error_count' = error_count + 1
    /\ UNCHANGED <<batchEvents, currentByteLength, send_count, retry_count,
                   host, index, accepted, submitted, conc, api, discarded>>
    /\ metrics' = NoMetrics
\* sendEvent on a payload json.dumps raises on: the exception leaves
\* sendEvent at line 151, before the size check
SendEventFails(p, eventtime, now) ==
    /\ pc = "idle"
    /\ calls < MaxCalls
    /\ ~Serializable(Enrich(p, eventtime, now, host, index))
    /\ calls' = calls + 1
    /\ caller' = "sendEvent"
    /\ payloadString' = <<>>
    /\ flushCalls' = 0
    /\ pc' = "idle"
    /\ outcome' = "unserializable"
    /\ raised' = TRUE
    /\ payload' = <<>>
    /\ event_count' = 0
    /\ attempt' = 0
    /\ last_error' = "None"
    /\ total' = 0
    /\ response' = 0
    /\ posts' = 0
    /\ waits' = <<>>
    /\ results' = <<>>
    /\ sentBodies' = {}
    /\ send0' = send_count
    /\ retry0' = retry_count
    /\ error0' = error_count
    /\ batch0' = batchEvents
    /\ bytes0' = currentByteLength
    /\ UNCHANGED <<fields, accepted, submitted, conc, api, discarded>>
    /\ metrics' = NoMetrics

\* (an append that silently leaves out an event larger than the budget)
AppendEventIfFits ==
    /\ pc = "append"
    /\ IF Len(payloadString) > MaxBytes
       THEN UNCHANGED <<batchEvents, currentByteLength, accepted>>
       ELSE /\ batchEvents' = Append(batchEvents, payloadString)
            /\ currentByteLength' = AddLength(Len(payloadString))
            /\ accepted' = Append(accepted, payloadString)
    /\ pc' = "idle"
    /\ UNCHANGED <<send_count, retry_count, error_count, host, index>>
    /\ UNCHANGED <<caller, payloadString, payload, event_count, attempt, last_error,
                   total, response, raised>>
    /\ UNCHANGED <<calls, flushCalls, posts, waits, results, outcome,
                   send0, retry0, error0, batch0, bytes0, submitted,
                   sentBodies, conc, api, discarded, metrics>>
\* sendEvent's last two statements
AppendEvent ==
    /\ pc = "append"
    /\ batchEvents' = Append(batchEvents, payloadString)
    /\ currentByteLength' = AddLength(Len(payloadString))
    /\ accepted' = Append(accepted, payloadString)
    /\ pc' = "idle"
    /\ UNCHANGED <<send_count, retry_count, error_count, host, index>>
    /\ UNCHANGED <<caller, payloadString, payload, event_count, attempt, last_error,
                   total, response, raised>>
    /\ UNCHANGED <<calls, flushCalls, posts, waits, results, outcome,
                   send0, retry0, error0, batch0, bytes0, submitted,
                   sentBodies, conc, api, discarded, metrics>>

\* a direct call of flushBatch
FlushBatch ==
    /\ pc = "idle"
    /\ calls < MaxCalls
    /\ calls' = calls + 1
    /\ caller' = "flushBatch"
    /\ payloadString' = <<>>
    /\ flushCalls' = 1
    /\ FlushEnter

\* what one step of a flush leaves alone
FlushFrame ==
    UNCHANGED <<host, index, caller, payloadString, payload, event_count,
                calls, flushCalls, send0, retry0, error0, batch0, bytes0,
                accepted, submitted, conc, api, metrics>>

\* (a body built again from the batch at every submission)
BodyRebuilt == Join(batchEvents)
\* data=payload: the body of every submission is flushBatch's local
Body == payload

\* the session is handed a request
Submit ==
    /\ posts' = posts + 1
    /\ sentBodies' = sentBodies \cup {Body}

\* The session's adapter (Retry(total=max_retries, status_forcelist=...,
\* allowed_methods=["POST"], raise_on_status=False)) resubmits the request
\* itself after a status of the forcelist, while it has retries left.
AdapterRetryStatus(code) ==
    /\ pc = "post"
    /\ IsRetryStatus(code)
    /\ total > 0
    /\ total' = total - 1
    /\ Submit
    /\ FlushFrame
    /\ UNCHANGED discarded
    /\ UNCHANGED <<batchEvents, currentByteLength, send_count, retry_count, error_count,
                   pc, attempt, last_error, response, raised, waits, results, outcome>>

\* ... and after a connection or read failure
AdapterRetryError ==
    /\ pc = "post"
    /\ total > 0
    /\ total' = total - 1
    /\ Submit
    /\ FlushFrame
    /\ UNCHANGED discarded
    /\ UNCHANGED <<batchEvents, currentByteLength, send_count, retry_count, error_count,
                   pc, attempt, last_error, response, raised, waits, results, outcome>>

\* response.status_code == 200
PostSuccess ==
    /\ pc = "post"
    /\ Submit
    /\ send_count' = SentCount
    /\ ClearBatch
    /\ response' = 200
    /\ results' = Append(results, "200")
    /\ outcome' = "success"
    /\ pc' = "ret"
    /\ FlushFrame
    /\ UNCHANGED discarded
    /\ UNCHANGED <<retry_count, error_count, attempt, last_error, total, raised, waits>>

\* response.status_code in DEFAULT_RETRY_STATUS_CODES, the adapter's retries
\* being used up: the response reaches flushBatch
PostRetryStatus(code) ==
    /\ pc = "post"
    /\ IsRetryStatus(code)
    /\ total = 0
    /\ Submit
    /\ retry_count' = retry_count + 1
    /\ waits' = Append(waits, WaitTime(attempt))
    /\ response' = code
    /\ results' = Append(results, "retry_status")
    /\ pc' = "sleep"
    /\ FlushFrame
    /\ UNCHANGED discarded
    /\ UNCHANGED <<batchEvents, currentByteLength, send_count, error_count,
                   attempt, last_error, total, raised, outcome>>

\* (a non-retryable status that is counted as a retry and waited on)
PostNonRetryableRetried(code) ==
    /\ pc = "post"
    /\ code # 200
    /\ ~IsRetryStatus(code)
    /\ Submit
    /\ error_count' = error_count + 1
    /\ retry_count' = retry_count + 1
    /\ waits' = Append(waits, WaitTime(attempt))
    /\ Discard
    /\ ClearBatch
    /\ response' = code
    /\ results' = Append(results, "other_status")
    /\ outcome' = "nonretryable"
    /\ pc' = "ret"
    /\ FlushFrame
    /\ UNCHANGED <<send_count, attempt, last_error, total, raised>>
\* any other status: non-retryable error
PostNonRetryable(code) ==
    /\ pc = "post"
    /\ code # 200
    /\ ~IsRetryStatus(code)
    /\ Submit
    /\ error_count' = error_count + 1
    /\ Discard
    /\ ClearBatch
    /\ response' = code
    /\ results' = Append(results, "other_status")
    /\ outcome' = "nonretryable"
    /\ pc' = "ret"
    /\ FlushFrame
    /\ UNCHANGED <<send_count, retry_count, attempt, last_error, total, raised, waits>>

\* (a transport failure caught by the general handler: counted as an error
\* and raised again)
PostTransportErrorRaised(exc) ==
    /\ pc = "post"
    /\ total = 0
    /\ Submit
    /\ error_count' = error_count + 1
    /\ Discard
    /\ ClearBatch
    /\ raised' = TRUE
    /\ results' = Append(results, "transport")
    /\ outcome' = "unexpected"
    /\ pc' = "ret"
    /\ FlushFrame
    /\ UNCHANGED <<send_count, retry_count, attempt, last_error, total, response, waits>>
\* except requests.exceptions.Timeout / ConnectionError: raised by the session
\* once the adapter's retries are used up
PostTransportError(exc) ==
    /\ pc = "post"
    /\ total = 0
    /\ Submit
    /\ retry_count' = retry_count + 1
    /\ last_error' = exc
    /\ waits' = Append(waits, WaitTime(attempt))
    /\ results' = Append(results, "transport")
    /\ pc' = "sleep"
    /\ FlushFrame
    /\ UNCHANGED discarded
    /\ UNCHANGED <<batchEvents, currentByteLength, send_count, error_count,
                   attempt, total, response, raised, outcome>>

\* (an unexpected failure that is counted but not raised again)
PostUnexpectedSwallowed ==
    /\ pc = "post"
    /\ Submit
    /\ error_count' = error_count + 1
    /\ Discard
    /\ ClearBatch
    /\ raised' = FALSE
    /\ results' = Append(results, "Exception")
    /\ outcome' = "unexpected"
    /\ pc' = "ret"
    /\ FlushFrame
    /\ UNCHANGED <<send_count, retry_count, attempt, last_error, total, response, waits>>
\* except Exception: anything else the session raises
PostUnexpected ==
    /\ pc = "post"
    /\ Submit
    /\ error_count' = error_count + 1
    /\ Discard
    /\ ClearBatch
    /\ raised' = TRUE
    /\ results' = Append(results, "Exception")
    /\ outcome' = "unexpected"
    /\ pc' = "ret"
    /\ FlushFrame
    /\ UNCHANGED <<send_count, retry_count, attempt, last_error, total, response, waits>>

\* (a loop with no code after it: the wait after the last attempt never ends)
SleepWithoutExit ==
    /\ pc = "sleep"
    /\ HasNextAttempt(attempt)
    /\ attempt' = attempt + 1
    /\ total' = max_retries
    /\ pc' = "post"
    /\ FlushFrame
    /\ UNCHANGED discarded
    /\ UNCHANGED <<batchEvents, currentByteLength, error_count, response, outcome,
                   send_count, retry_count, last_error, raised, posts, waits,
                   results, sentBodies>>
\* (a loop that raises when the attempts are exhausted)
SleepRaisesOnExhaustion ==
    /\ pc = "sleep"
    /\ IF HasNextAttempt(attempt)
       THEN /\ attempt' = attempt + 1
            /\ UNCHANGED discarded
            /\ total' = max_retries
            /\ pc' = "post"
            /\ UNCHANGED <<batchEvents, currentByteLength, error_count, response,
                           outcome, raised>>
       ELSE /\ error_count' = error_count + 1
            /\ Discard
            /\ ClearBatch
            /\ response' = 0
            /\ outcome' = "exhausted"
            /\ raised' = TRUE
            /\ pc' = "ret"
            /\ UNCHANGED <<attempt, total>>
    /\ FlushFrame
    /\ UNCHANGED <<send_count, retry_count, last_error, posts, waits, results,
                   sentBodies>>
\* time.sleep(wait_time) returns: the next attempt, or the code after the loop
Sleep ==
    /\ pc = "sleep"
    /\ IF HasNextAttempt(attempt)
       THEN /\ attempt' = attempt + 1
            /\ UNCHANGED discarded
            /\ total' = max_retries
            /\ pc' = "post"
            /\ UNCHANGED <<batchEvents, currentByteLength, error_count, response, outcome>>
       ELSE /\ error_count' = error_count + 1
            /\ Discard
            /\ ClearBatch
            /\ response' = 0
            /\ outcome' = "exhausted"
            /\ pc' = "ret"
            /\ UNCHANGED <<attempt, total>>
    /\ FlushFrame
    /\ UNCHANGED <<send_count, retry_count, last_error, raised, posts, waits, results,
                   sentBodies>>

\* flushBatch is left: back in sendEvent before the append, or back at the
\* caller (an exception leaves sendEvent as well)
FlushReturn ==
    /\ pc = "ret"
    /\ pc' = IF ~raised /\ caller = "sendEvent" THEN "append" ELSE "idle"
    /\ NoFlush
    /\ UNCHANGED <<fields, caller, payloadString, raised>>
    /\ UNCHANGED <<calls, flushCalls, outcome, batch0, bytes0, accepted, submitted,
                   conc, api, discarded, metrics>>

\* (a read that also resets the counters)
GetMetricsResetting ==
    /\ pc = "idle"
    /\ metrics' = [send_count |-> send_count, retry_count |-> retry_count,
                   error_count |-> error_count]
    /\ send_count' = 0
    /\ retry_count' = 0
    /\ error_count' = 0
    /\ UNCHANGED <<batchEvents, currentByteLength, host, index>>
    /\ UNCHANGED <<locals, history, conc, api>>
\* get_metrics, called between two calls
GetMetrics ==
    /\ pc = "idle"
    /\ metrics' = [send_count |-> send_count, retry_count |-> retry_count,
                   error_count |-> error_count]
    /\ UNCHANGED <<fields, locals, history, conc, api>>

Next ==
    \/ GetMetrics
    \/ \E in \in Inputs, now \in Clock : SendEvent(in[1], in[2], now)
    \/ \E in \in Inputs, now \in Clock : SendEventFails(in[1], in[2], now)
    \/ AppendEvent
    \/ FlushBatch
    \/ \E code \in StatusCodes : AdapterRetryStatus(code)
    \/ AdapterRetryError
    \/ PostSuccess
    \/ \E code \in StatusCodes : PostRetryStatus(code)
    \/ \E code \in StatusCodes : PostNonRetryable(code)
    \/ \E exc \in TransportErrors : PostTransportError(exc)
    \/ PostUnexpected
    \/ Sleep
    \/ FlushReturn

Spec == Init /\ [][Next]_vars

\* session.post returns or raises: one step of a submission
PostStep ==
    \/ \E code \in StatusCodes : AdapterRetryStatus(code)
    \/ AdapterRetryError
    \/ PostSuccess
    \/ \E code \in StatusCodes : PostRetryStatus(code)
    \/ \E code \in StatusCodes : PostNonRetryable(code)
    \/ \E exc \in TransportErrors : PostTransportError(exc)
    \/ PostUnexpected

\* every submission completes (timeout=30) and every time.sleep returns
SpecLive == Spec /\ WF_vars(PostStep) /\ WF_vars(Sleep)

\* ---------------------------------------------------------- two callers
\* Two threads call sendEvent and flushBatch on the same instance with no
\* lock.  The running thread's locals are the variables above; the other
\* thread's are in saved.  The interpreter may pass to the other thread
\* between any two bytecodes; the model lets it do so where a call blocks
\* (time.sleep in the retry loop), between the two statements that end
\* sendEvent, and between calls.
SwitchPoints == {"idle", "sleep", "count"}

Switch ==
    /\ switches < MaxSwitches
    /\ pc \in SwitchPoints
    /\ switches' = switches + 1
    /\ overlapped' = (overlapped \/ pc # "idle")
    /\ saved' = Context
    /\ pc' = saved.pc
    /\ caller' = saved.caller
    /\ payloadString' = saved.payloadString
    /\ payload' = saved.payload
    /\ event_count' = saved.event_count
    /\ attempt' = saved.attempt
    /\ last_error' = saved.last_error
    /\ total' = saved.total
    /\ response' = saved.response
    /\ raised' = saved.raised
    /\ flushCalls' = saved.flushCalls
    /\ posts' = saved.posts
    /\ waits' = saved.waits
    /\ results' = saved.results
    /\ outcome' = saved.outcome
    /\ send0' = saved.send0
    /\ retry0' = saved.retry0
    /\ error0' = saved.error0
    /\ batch0' = saved.batch0
    /\ bytes0' = saved.bytes0
    /\ sentBodies' = saved.sentBodies
    /\ UNCHANGED <<fields, calls, accepted, submitted, discarded, metrics, api>>

\* self.batchEvents.append(payloadString), as a step of its own
AppendOnly ==
    /\ pc = "append"
    /\ batchEvents' = Append(batchEvents, payloadString)
    /\ accepted' = Append(accepted, payloadString)
    /\ pc' = "count"
    /\ UNCHANGED <<currentByteLength, send_count, retry_count, error_count, host, index>>
    /\ UNCHANGED <<caller, payloadString, payload, event_count, attempt, last_error,
                   total, response, raised>>
    /\ UNCHANGED <<calls, flushCalls, posts, waits, results, outcome,
                   send0, retry0, error0, batch0, bytes0, submitted,
                   sentBodies, conc, api, discarded, metrics>>

\* (an append that leaves the counter as it is)
CountOnlySkipped ==
    /\ pc = "count"
    /\ pc' = "idle"
    /\ UNCHANGED <<batchEvents, currentByteLength, send_count, retry_count,
                   error_count, host, index>>
    /\ UNCHANGED <<caller, payloadString, payload, event_count, attempt, last_error,
                   total, response, raised>>
    /\ UNCHANGED <<calls, flushCalls, posts, waits, results, outcome,
                   send0, retry0, error0, batch0, bytes0, accepted, submitted,
                   sentBodies, conc, api, discarded, metrics>>
\* self.currentByteLength += payloadLength, as a step of its own
CountOnly ==
    /\ pc = "count"
    /\ currentByteLength' = AddLength(Len(payloadString))
    /\ pc' = "idle"
    /\ UNCHANGED <<batchEvents, send_count, retry_count, error_count, host, index>>
    /\ UNCHANGED <<caller, payloadString, payload, event_count, attempt, last_error,
                   total, response, raised>>
    /\ UNCHANGED <<calls, flushCalls, posts, waits, results, outcome,
                   send0, retry0, error0, batch0, bytes0, accepted, submitted,
                   sentBodies, conc, api, discarded, metrics>>

NextConc ==
    \/ GetMetrics
    \/ \E in \in Inputs, now \in Clock : SendEvent(in[1], in[2], now)
    \/ \E in \in Inputs, now \in Clock : SendEventFails(in[1], in[2], now)
    \/ AppendOnly
    \/ CountOnly
    \/ FlushBatch
    \/ \E code \in StatusCodes : AdapterRetryStatus(code)
    \/ AdapterRetryError
    \/ PostSuccess
    \/ \E code \in StatusCodes : PostRetryStatus(code)
    \/ \E code \in StatusCodes : PostNonRetryable(code)
    \/ \E exc \in TransportErrors : PostTransportError(exc)
    \/ PostUnexpected
    \/ Sleep
    \/ FlushReturn
    \/ Switch

\* The two callers start on an instance that already holds one event, the
\* first of the test script, with two calls left to make between them.
FirstEvent ==
    CHOOSE e \in {Dumps(Enrich(<< <<"event", <<"a">> >> >>, <<>>, now, h, i)) :
                      now \in Clock, h \in Hosts, i \in Indexes} : TRUE

InitConc ==
    /\ batchEvents = <<FirstEvent>>
    /\ currentByteLength = Len(FirstEvent)
    /\ send_count = 0
    /\ retry_count = 0
    /\ error_count = 0
    /\ host \in Hosts
    /\ index \in Indexes
    /\ pc = "idle"
    /\ caller = "sendEvent"
    /\ payloadString = FirstEvent
    /\ payload = <<>>
    /\ event_count = 0
    /\ attempt = 0
    /\ last_error = "None"
    /\ total = 0
    /\ response = 0
    /\ raised = FALSE
    /\ calls = MaxCalls - 2
    /\ flushCalls = 0
    /\ posts = 0
    /\ waits = <<>>
    /\ results = <<>>
    /\ outcome = "none"
    /\ send0 = 0
    /\ retry0 = 0
    /\ error0 = 0
    /\ batch0 = <<>>
    /\ bytes0 = 0
    /\ accepted = <<FirstEvent>>
    /\ submitted = <<>>
    /\ sentBodies = {}
    /\ discarded = 0
    /\ metrics = NoMetrics
    /\ saved = IdleContext
    /\ overlapped = FALSE
    /\ switches = 0
    /\ ApiIdle

SpecConc == InitConc /\ [][NextConc]_vars

\* ------------------------------------------- plugin.py: the retry helper
\* str.lower() on the letters the messages use
LowerChar(c) ==
    CASE c = "R" -> "r"
      [] c = "L" -> "l"
      [] c = "H" -> "h"
      [] c = "T" -> "t"
      [] c = "P" -> "p"
      [] OTHER -> c
Lower(str) == [i \in 1..Len(str) |-> LowerChar(str[i])]
\* sub in str
Contains(str, sub) ==
    \E i \in 1..(Len(str) - Len(sub) + 1) : SubSeq(str, i, i + Len(sub) - 1) = sub

\* str(e) of the exceptions api_func raises: a 429 answer, a rate limit
\* spelled out with capitals, and an error of another kind
ErrorMessages ==
    { <<"H", "T", "T", "P", " ", "4", "2", "9">>,
      <<"R", "a", "t", "e", " ", "L", "i", "m", "i", "t">>,
      <<"H", "T", "T", "P", " ", "5", "0", "0">> }
\* the max_retries and initial_wait arguments callers pass
ApiRetries == 0..MaxApiRetries
InitialWaits == {2, 30}

\* '429' in error_str or 'rate limit' in error_str.lower()
IsRateLimit(error_str) ==
    \/ Contains(error_str, <<"4", "2", "9">>)
    \/ Contains(Lower(error_str), <<"r", "a", "t", "e", " ", "l", "i", "m", "i", "t">>)

RECURSIVE Pow3(_)
Pow3(n) == IF n = 0 THEN 1 ELSE 3 * Pow3(n - 1)
\* initial_wait * (1.5 ** attempt), as the fraction <<numerator, denominator>>
ApiWaitTime(a) == <<initial_wait * Pow3(a), Pow2(a)>>

\* (a wait after every rate-limit failure, the last one included)
RetriesLeftAlways(a) == TRUE
\* attempt < max_retries - 1
RetriesLeft(a) == a < api_max_retries - 1

\* the collector is not used by the helper
CollectorFrame == UNCHANGED <<fields, locals, history, conc, metrics>>

\* _safe_api_call_with_retry(api_func, max_retries=m, initial_wait=w) is
\* called: the loop starts, or has nothing to do and line 40 raises
ApiCall(m, w) ==
    /\ api_pc \in {"idle", "done"}
    /\ api_calls < MaxApiCalls
    /\ api_calls' = api_calls + 1
    /\ api_max_retries' = m
    /\ initial_wait' = w
    /\ api_attempt' = 0
    /\ api_errors' = <<>>
    /\ api_waits' = <<>>
    /\ invocations' = 0
    /\ IF m > 0
       THEN api_pc' = "invoke" /\ api_outcome' = "none"
       ELSE api_pc' = "done" /\ api_outcome' = "fell_through"
    /\ CollectorFrame

\* return api_func(*args, **kwargs)
ApiReturns ==
    /\ api_pc = "invoke"
    /\ invocations' = invocations + 1
    /\ api_outcome' = "returned"
    /\ api_pc' = "done"
    /\ UNCHANGED <<api_max_retries, initial_wait, api_attempt, api_calls,
                   api_errors, api_waits>>
    /\ CollectorFrame

\* api_func raises: the except clause
ApiRaises(error_str) ==
    /\ api_pc = "invoke"
    /\ invocations' = invocations + 1
    /\ api_errors' = Append(api_errors, error_str)
    /\ IF IsRateLimit(error_str) /\ RetriesLeft(api_attempt)
       THEN /\ api_waits' = Append(api_waits, ApiWaitTime(api_attempt))
            /\ api_pc' = "sleep"
            /\ UNCHANGED api_outcome
       ELSE /\ api_outcome' = "raised"
            /\ api_pc' = "done"
            /\ UNCHANGED api_waits
    /\ UNCHANGED <<api_max_retries, initial_wait, api_attempt, api_calls>>
    /\ CollectorFrame

\* time.sleep(wait_time) returns and the loop continues: the next call, or
\* the code after the loop
ApiSleepReturns ==
    /\ api_pc = "sleep"
    /\ IF api_attempt + 1 < api_max_retries
       THEN /\ api_attempt' = api_attempt + 1
            /\ api_pc' = "invoke"
            /\ UNCHANGED api_outcome
       ELSE /\ api_outcome' = "fell_through"
            /\ api_pc' = "done"
            /\ UNCHANGED api_attempt
    /\ UNCHANGED <<api_max_retries, initial_wait, api_calls, api_errors, api_waits,
                   invocations>>
    /\ CollectorFrame

NextRetry ==
    \/ \E m \in ApiRetries, w \in InitialWaits : ApiCall(m, w)
    \/ ApiReturns
    \/ \E error_str \in ErrorMessages : ApiRaises(error_str)
    \/ ApiSleepReturns

SpecRetry == Init /\ [][NextRetry]_vars

\* ----------------------------------------------------------------- typing
TypeOK ==
    /\ pc \in {"idle", "post", "sleep", "ret", "append", "count"}
    /\ currentByteLength \in Nat
    /\ attempt \in 0..max_retries
    /\ total \in 0..max_retries
    /\ discarded \in Nat
    /\ metrics \in [send_count : Int, retry_count : Int, error_count : Int]


\* ------------------------------------------------------------- properties
InFlush == pc \in {"post", "sleep"}
\* flushBatch has just returned or raised
AtReturn == pc = "ret"
\* the current sendEvent call serialized its event and found that it did
\* not fit
Overflowed == payloadString # <<>> /\ bytes0 + Len(payloadString) > MaxBytes
\* every attempt but the last one returned a retryable status
RetryStatusBefore(n) == \A i \in 1..(n - 1) : results[i] = "retry_status"

\* C1: in every reachable state the byte counter equals the sum of the
\* lengths of the serialized events held in the batch.
C1_ByteCounterIsSum == currentByteLength = SumLen(batchEvents)

C1_Witness ==
    /\ pc = "idle"
    /\ Len(batchEvents) = 2
    /\ send_count > 0
    /\ currentByteLength = Len(batchEvents[1]) + Len(batchEvents[2])

\* C2 (as stated): a sendEvent whose event does not fit calls flushBatch
\* exactly once, and after the call the batch holds exactly that event,
\* whatever the outcome of the flush.
C2_AsStated ==
    (pc = "idle" /\ caller = "sendEvent" /\ Overflowed)
        => (flushCalls = 1 /\ batchEvents = <<payloadString>>)

\* C2 (amended): a sendEvent whose event does not fit calls flushBatch
\* exactly once; when that flush returns (success, non-retryable status,
\* exhaustion, empty batch) the batch after the call holds exactly that
\* event, and when it raises (unexpected failure) the exception leaves
\* sendEvent before the append and the batch after the call is empty.
C2_OverflowFlushesOnce ==
    (pc = "idle" /\ caller = "sendEvent" /\ Overflowed)
        => /\ flushCalls = 1
           /\ outcome \in {"success", "nonretryable", "exhausted", "unexpected", "noop"}
           /\ raised <=> (outcome = "unexpected")
           /\ IF raised
              THEN batchEvents = <<>> /\ currentByteLength = 0
              ELSE batchEvents = <<payloadString>>
                   /\ currentByteLength = Len(payloadString)

C2_Witness ==
    /\ pc = "idle"
    /\ caller = "sendEvent"
    /\ Overflowed
    /\ Len(batch0) = 2
    /\ outcome = "exhausted"
    /\ batchEvents = <<payloadString>>

\* C3: when flushBatch returns or raises on a non-empty batch, whatever the
\* terminal outcome, the batch is empty and the byte counter is 0.
C3_TerminalClearsBatch ==
    (AtReturn /\ batch0 # <<>>)
        => /\ outcome \in {"success", "nonretryable", "exhausted", "unexpected"}
           /\ batchEvents = <<>>
           /\ currentByteLength = 0

C3_Witness ==
    /\ AtReturn
    /\ Len(batch0) = 2
    /\ outcome = "unexpected"
    /\ batchEvents = <<>>
    /\ currentByteLength = 0

\* C4 (as stated): when every one of the max_retries + 1 attempts returns a
\* retryable status, retry_count grows by exactly max_retries, error_count by
\* exactly 1, send_count is unchanged and the batch ends empty.
C4_AsStated ==
    (AtReturn /\ outcome = "exhausted" /\ RetryStatusBefore(Len(results) + 1))
        => /\ retry_count = retry0 + max_retries
           /\ error_count = error0 + 1
           /\ send_count = send0
           /\ batchEvents = <<>>

\* C5 (as stated): a flush waits at most max_retries times, and no wait
\* follows the failure of the last allowed attempt.
C5_AsStated ==
    /\ Len(waits) <= max_retries
    /\ pc = "sleep" => attempt < max_retries

C7_AsStated == posts <= max_retries + 1

\* C8: a non-retryable status ends the flush at that attempt: no wait follows
\* it and no further attempt is made, error_count grows by exactly 1,
\* retry_count is not increased by that attempt, send_count is unchanged and
\* the batch is empty.
C8_NonRetryableEndsFlush ==
    /\ (Len(results) > 0 /\ results[Len(results)] = "other_status")
           => (AtReturn /\ outcome = "nonretryable")
    /\ (AtReturn /\ outcome = "nonretryable")
           => LET k == Len(results) - 1
              IN  /\ attempt = k
                  /\ Len(waits) = k
                  /\ retry_count = retry0 + k
                  /\ error_count = error0 + 1
                  /\ send_count = send0
                  /\ batchEvents = <<>>
                  /\ currentByteLength = 0

C8_Witness ==
    /\ AtReturn
    /\ outcome = "nonretryable"
    /\ results = <<"other_status">>
    /\ response = 400
    /\ waits = <<>>
    /\ retry_count = retry0
    /\ error_count = error0 + 1
    /\ batch0 # <<>>

\* C9: flushBatch on an empty batch submits nothing and leaves the three
\* counters, the batch and the byte counter as they were.
C9_EmptyFlushIsNoop ==
    (flushCalls = 1 /\ batch0 = <<>> /\ (InFlush \/ AtReturn))
        => /\ AtReturn
           /\ outcome = "noop"
           /\ posts = 0
           /\ send_count = send0
           /\ retry_count = retry0
           /\ error_count = error0
           /\ batchEvents = batch0
           /\ currentByteLength = bytes0

C9_Witness ==
    /\ AtReturn
    /\ outcome = "noop"
    /\ caller = "flushBatch"
    /\ error_count > 0
    /\ posts = 0

\* C10: the body of a flush is the batch's events in the order they were
\* added, one newline between consecutive events and none at the end, so that
\* splitting it at newlines gives back exactly the n events, the j-th being
\* the j-th added; across flushes the events are submitted in the order they
\* were added, batch by batch.
C10_BodyIsEventsInOrder ==
    /\ InFlush
           => /\ Split(payload) = batch0
              /\ Len(Split(payload)) = event_count
              /\ payload[Len(payload)] # NL
              /\ Len(payload) = SumLen(batch0) + (Len(batch0) - 1)
    /\ accepted = submitted \o (IF InFlush THEN <<>> ELSE batchEvents)

C10_Witness ==
    /\ InFlush
    /\ Len(batch0) = 2
    /\ batch0[1] # batch0[2]
    /\ \E i \in 1..Len(batch0[1]) : batch0[1][i] = BACKSLASH
    /\ Split(payload) = batch0
    /\ submitted = batch0
    /\ accepted = batch0


\* C11: every attempt of one flush submits the same body, whatever happens
\* to the instance between the attempts (here: the other caller appending to
\* the batch or flushing it).
C11_SameBodyEveryAttempt ==
    /\ Cardinality(sentBodies) <= 1
    /\ Cardinality(saved.sentBodies) <= 1
    /\ posts > 0 => sentBodies = {Join(batch0)}

C11_Witness ==
    /\ InFlush
    /\ attempt >= 1
    /\ posts > max_retries + 1
    /\ batchEvents # batch0
    /\ sentBodies = {Join(batch0)}


\* C12: a transport failure on an attempt counts one retry, is followed by
\* the wait backoff_factor * 2^attempt and by the next attempt, exactly as a
\* retryable status; when all max_retries + 1 attempts fail this way,
\* error_count grows by exactly 1, the batch is cleared and flushBatch
\* returns without raising.
C12_TransportFailureRetried ==
    /\ (Len(results) > 0 /\ results[Len(results)] = "transport")
           => (~raised /\ (InFlush \/ (AtReturn /\ outcome = "exhausted")))
    /\ (pc = "sleep" /\ results[Len(results)] = "transport")
           => /\ attempt = Len(results) - 1
              /\ retry_count = retry0 + Len(results)
              /\ Len(waits) = Len(results)
              /\ waits[Len(waits)] = backoff_factor * (2 ^ attempt)
              /\ last_error \in TransportErrors
              /\ outcome = "none"
              /\ batchEvents = batch0
    /\ (pc = "post" /\ attempt > 0) => Len(results) = attempt
    /\ (AtReturn /\ outcome = "exhausted"
            /\ \A i \in 1..Len(results) : results[i] = "transport")
           => /\ Len(results) = max_retries + 1
              /\ error_count = error0 + 1
              /\ send_count = send0
              /\ batchEvents = <<>>
              /\ currentByteLength = 0
              /\ response = 0
              /\ ~raised

C12_Witness ==
    /\ AtReturn
    /\ outcome = "exhausted"
    /\ results = <<"transport", "transport", "transport", "transport">>
    /\ last_error = "ConnectionError"
    /\ error_count = error0 + 1
    /\ batch0 # <<>>
    /\ batchEvents = <<>>
    /\ ~raised


\* C13: an unexpected failure ends the flush at that attempt with no wait
\* and no further attempt; error_count grows by exactly 1, retry_count is not
\* increased by that attempt, the batch is cleared and the failure reaches
\* the caller of flushBatch (a sendEvent that called it does not append).
C13_UnexpectedFailurePropagates ==
    /\ (Len(results) > 0 /\ results[Len(results)] = "Exception")
           => (AtReturn /\ outcome = "unexpected")
    /\ (AtReturn /\ outcome = "unexpected")
           => LET k == Len(results) - 1
              IN  /\ raised
                  /\ attempt = k
                  /\ Len(waits) = k
                  /\ retry_count = retry0 + k
                  /\ error_count = error0 + 1
                  /\ send_count = send0
                  /\ batchEvents = <<>>
                  /\ currentByteLength = 0
    /\ (pc \in {"idle", "append"} /\ outcome = "unexpected")
           => (pc = "idle" /\ raised /\ batchEvents = <<>>)

C13_Witness ==
    /\ AtReturn
    /\ outcome = "unexpected"
    /\ caller = "sendEvent"
    /\ results = <<"retry_status", "Exception">>
    /\ waits = <<1>>
    /\ retry_count = retry0 + 1
    /\ error_count = error0 + 1
    /\ raised
    /\ batch0 # <<>>


\* C14: no flush outcome other than the unexpected failure raises: success,
\* a non-retryable status, exhausted attempts and the empty batch all return
\* normally, the waits and further attempts of a flush in progress raise
\* nothing, and a sendEvent whose event serializes raises only when the flush
\* it called ended in an unexpected failure; when it does not raise it goes
\* on to the append.
C14_RaisesOnlyOnUnexpected ==
    /\ outcome \in {"success", "nonretryable", "exhausted", "noop"} => ~raised
    /\ InFlush => ~raised
    /\ (raised /\ outcome # "unserializable")
           => /\ outcome = "unexpected"
              /\ flushCalls = 1
              /\ pc \in {"ret", "idle"}
    /\ outcome = "unserializable" => (caller = "sendEvent" /\ payloadString = <<>>)
    /\ pc = "append" => (caller = "sendEvent" /\ ~raised)

C14_Witness ==
    /\ pc = "append"
    /\ caller = "sendEvent"
    /\ outcome = "exhausted"
    /\ flushCalls = 1
    /\ error_count > 0
    /\ ~raised
    /\ batch0 # <<>>


\* C15: when every submission completes and every wait returns, a flush of
\* a non-empty batch always reaches a terminal outcome: success, a
\* non-retryable response, an unexpected failure or exhausted attempts.
C15_FlushTerminates ==
    InFlush ~> (AtReturn /\ outcome \in {"success", "nonretryable", "unexpected",
                                         "exhausted"})

C15_Witness ==
    /\ AtReturn
    /\ outcome = "exhausted"
    /\ batch0 # <<>>
    /\ Len(results) = max_retries + 1
    /\ Len(waits) = max_retries + 1
    /\ posts = (max_retries + 1) * (max_retries + 1)


\* the current sendEvent call serialized an event that alone exceeds the
\* budget
Oversized == Len(payloadString) > MaxBytes
\* the current sendEvent call serialized its event and found the batch
\* already over the budget
HeldOversized == caller = "sendEvent" /\ payloadString # <<>> /\ bytes0 > MaxBytes

\* C16 (as stated): an event that alone exceeds the budget is appended by
\* the sendEvent call that brought it, after the flush of the events held
\* before, and the next sendEvent flushes a batch holding only that event
\* and then appends its own.
C16_AsStated ==
    /\ (pc = "idle" /\ caller = "sendEvent" /\ Oversized)
           => (flushCalls = 1 /\ batchEvents = <<payloadString>>)
    /\ (pc = "idle" /\ HeldOversized)
           => (flushCalls = 1 /\ Len(batch0) = 1 /\ batchEvents = <<payloadString>>)

\* C16 (amended): no event is left out for its size.  An event that alone
\* exceeds the budget goes through the flush of the events held before and
\* is appended, alone in the batch, unless that flush ended in an unexpected
\* failure, which leaves sendEvent before the append as it does for an
\* event of any size.  The next sendEvent whose event serializes, whatever
\* its size, flushes a batch that holds only the oversized event (every body
\* handed to the session is that event) before it appends.
C16_OversizedIsAppended ==
    /\ (pc = "idle" /\ caller = "sendEvent" /\ Oversized)
           => /\ flushCalls = 1
              /\ raised <=> (outcome = "unexpected")
              /\ IF raised
                 THEN batch0 # <<>> /\ batchEvents = <<>>
                 ELSE /\ batchEvents = <<payloadString>>
                      /\ currentByteLength = Len(payloadString)
                      /\ accepted[Len(accepted)] = payloadString
    /\ currentByteLength > MaxBytes => Len(batchEvents) = 1
    /\ HeldOversized
           => /\ flushCalls = 1
              /\ Len(batch0) = 1
              /\ Len(batch0[1]) = bytes0
              /\ posts > 0 => sentBodies = {batch0[1]}
              /\ pc = "append" => batchEvents = <<>>
              /\ (pc = "idle" /\ ~raised) => batchEvents = <<payloadString>>

C16_Witness ==
    /\ pc = "idle"
    /\ HeldOversized
    /\ ~raised
    /\ Len(accepted) = 3
    /\ Len(accepted[1]) <= MaxBytes
    /\ Len(accepted[2]) > MaxBytes
    /\ Len(accepted[3]) <= MaxBytes
    /\ submitted = <<accepted[1], accepted[2]>>
    /\ batchEvents = <<accepted[3]>>


\* C17: a sendEvent whose event cannot be serialized raises before it
\* touches the batch: the batch, the byte counter and the three counters
\* are what they were when the call began, flushBatch is not called and
\* nothing is handed to the session, whatever the batch holds.
C17_UnserializableLeavesBatch ==
    (caller = "sendEvent" /\ outcome = "unserializable")
        => /\ pc = "idle"
           /\ raised
           /\ batchEvents = batch0
           /\ currentByteLength = bytes0
           /\ send_count = send0
           /\ retry_count = retry0
           /\ error_count = error0
           /\ flushCalls = 0
           /\ posts = 0
           /\ sentBodies = {}

C17_Witness ==
    /\ pc = "idle"
    /\ caller = "sendEvent"
    /\ outcome = "unserializable"
    /\ raised
    /\ bytes0 > MaxBytes
    /\ batchEvents = batch0
    /\ Len(batch0) = 1
    /\ posts = 0


\* the three counters
Counters == <<send_count, retry_count, error_count>>

\* C18: no step makes send_count, retry_count or error_count smaller; a
\* step that changes one of them is a step of flushBatch's attempt loop;
\* get_metrics changes nothing and returns the three current values; a
\* sendEvent that goes to its append without a flush, and the append
\* itself, leave the three counters as they are.
C18_CountersOnlyGrowInFlush ==
    [][/\ send_count' >= send_count
       /\ retry_count' >= retry_count
       /\ error_count' >= error_count
       /\ Counters' # Counters => InFlush
       /\ (metrics' # metrics /\ metrics' # NoMetrics)
              => /\ UNCHANGED <<fields, locals, history, conc>>
                 /\ metrics' = [send_count |-> send_count,
                                retry_count |-> retry_count,
                                error_count |-> error_count]
       /\ ((pc = "idle" /\ pc' = "append") \/ pc = "append")
              => UNCHANGED Counters
      ]_vars

C18_Witness ==
    /\ pc = "idle"
    /\ metrics # NoMetrics
    /\ metrics = [send_count |-> send_count, retry_count |-> retry_count,
                  error_count |-> error_count]
    /\ send_count > 0
    /\ retry_count > 0
    /\ error_count > 0


\* the number of times e occurs in seq
Count(seq, e) == Cardinality({i \in 1..Len(seq) : seq[i] = e})

\* an accepted event is gone from the batch and was in no body
LostEvent ==
    \E i \in 1..Len(accepted) :
        Count(accepted, accepted[i])
            > Count(submitted, accepted[i]) + Count(batchEvents, accepted[i])
\* send_count counts more events than were ever accepted
CountedTwice == send_count > Len(accepted)
\* no call is in progress and the byte counter is not the sum of the held
\* lengths
CounterOff ==
    /\ pc = "idle"
    /\ saved.pc = "idle"
    /\ currentByteLength # SumLen(batchEvents)

\* C19: as long as the two callers take turns between calls only (no caller
\* is suspended inside a call), no accepted event is lost without having
\* been in a body, send_count does not exceed the accepted events and the
\* byte counter between calls is the sum of the held lengths; a caller
\* suspended inside a call makes such states reachable.
C19_SerializedCallsAreSafe ==
    ~overlapped => (~LostEvent /\ ~CountedTwice /\ ~CounterOff)

C19_Witness ==
    /\ overlapped
    /\ pc = "idle"
    /\ saved.pc = "idle"
    /\ outcome = "success"
    /\ LostEvent
    /\ batchEvents = <<>>
    /\ send_count = 1
    /\ Len(accepted) = 2

\* two overlapping flushes count the same event twice
C19_CountedTwiceReached == overlapped /\ CountedTwice /\ pc = "idle" /\ saved.pc = "idle"
\* a flush between the two statements of an append leaves the counter off
C19_CounterOffReached == overlapped /\ CounterOff /\ batchEvents = <<>>


\* C20: with one caller, every accepted event is accounted for exactly
\* once: the accepted events are those counted by send_count, those
\* discarded by a flush that ended in error and those held in the batch;
\* send_count never exceeds the accepted events; and the events handed to
\* the session, flush after flush, are the accepted events in order, each
\* one once, so that a discarded event is in no later body.
C20_AcceptedAccountedOnce ==
    /\ Len(accepted) = send_count + discarded + Len(batchEvents)
    /\ send_count <= Len(accepted)
    /\ Len(submitted) <= Len(accepted)
    /\ submitted = SubSeq(accepted, 1, Len(submitted))
    /\ Len(submitted) = send_count + discarded
                            + (IF InFlush THEN Len(batchEvents) ELSE 0)

C20_Witness ==
    /\ pc = "idle"
    /\ caller = "sendEvent"
    /\ send_count = 1
    /\ discarded = 1
    /\ error_count = 1
    /\ Len(batchEvents) = 1
    /\ Len(accepted) = 3
    /\ submitted = <<accepted[1], accepted[2]>>


\* C21: the byte counter exceeds the budget only when the batch holds
\* exactly one event, itself larger than the budget; a batch of two or more
\* events has a byte counter, the sum of the serialized lengths with no
\* separators, of at most the budget.
C21_OverBudgetOnlyAlone ==
    /\ Len(batchEvents) >= 2
           => (currentByteLength <= MaxBytes /\ SumLen(batchEvents) <= MaxBytes)
    /\ SumLen(batchEvents) > MaxBytes
           => (Len(batchEvents) = 1 /\ Len(batchEvents[1]) > MaxBytes)

C21_Witness ==
    /\ pc = "idle"
    /\ caller = "sendEvent"
    /\ ~raised
    /\ flushCalls = 1
    /\ Len(batch0) = 2
    /\ bytes0 = SumLen(batch0)
    /\ bytes0 <= MaxBytes
    /\ Len(batchEvents) = 1
    /\ currentByteLength = Len(batchEvents[1])
    /\ currentByteLength > MaxBytes


\* the call of _safe_api_call_with_retry is over
ApiDone == api_pc = "done"
\* every failure of the current call but the last n was a rate-limit one
RateLimitedButLast(n) ==
    \A i \in 1..(Len(api_errors) - n) : IsRateLimit(api_errors[i])

\* C22: api_func is invoked at most max_retries times.  A failure that is
\* not a rate-limit one ends the call at once: it is raised with no wait
\* after it and no further invocation.  A rate-limit failure is followed by
\* a wait and another invocation only while attempt < max_retries - 1; the
\* rate-limit failure of invocation number max_retries is raised with no
\* wait after it.  A success ends the call with no further invocation.
C22_AtMostMaxRetriesCalls ==
    /\ invocations <= api_max_retries
    /\ invocations = Len(api_errors) + (IF api_outcome = "returned" THEN 1 ELSE 0)
    /\ RateLimitedButLast(1)
    /\ api_pc = "invoke"
           => /\ RateLimitedButLast(0)
              /\ api_attempt = invocations
              /\ Len(api_waits) = invocations
    /\ api_pc = "sleep"
           => /\ RateLimitedButLast(0)
              /\ api_attempt = invocations - 1
              /\ api_attempt < api_max_retries - 1
              /\ Len(api_waits) = invocations
              /\ api_waits[Len(api_waits)] = ApiWaitTime(api_attempt)
    /\ (ApiDone /\ api_outcome = "raised")
           => /\ Len(api_waits) = invocations - 1
              /\ api_attempt = invocations - 1
              /\ IsRateLimit(api_errors[Len(api_errors)])
                     => invocations = api_max_retries
    /\ (ApiDone /\ api_outcome = "returned")
           => /\ RateLimitedButLast(0)
              /\ api_attempt = invocations - 1
              /\ Len(api_waits) = invocations - 1
    /\ api_outcome = "fell_through" => (api_max_retries = 0 /\ invocations = 0)

C22_Witness ==
    /\ ApiDone
    /\ api_outcome = "raised"
    /\ api_max_retries = MaxApiRetries
    /\ invocations = api_max_retries
    /\ initial_wait = 30
    /\ api_waits = << <<30, 1>>, <<90, 2>> >>
    /\ api_errors[2] = <<"R", "a", "t", "e", " ", "L", "i", "m", "i", "t">>
    /\ IsRateLimit(api_errors[3])

====
